---- MODULE Spec2Model ----
(***************************************************************************)
(* Model of asset-handoffer: the handoff pipeline of FileProcessor         *)
(* (core/processor.py), the Git wrapper GitRepo (core/git_repo.py), the    *)
(* filename parser (parsers.py), the path generator                        *)
(* (core/path_generator.py) and the `process` command (cli.py).            *)
(*                                                                         *)
(* Strings are sequences of symbols.  A symbol is a TLA+ string: either a  *)
(* single character ("_", ".", "/", " ") or a whole word of \w characters  *)
(* ("GameRes") standing for one run of word characters.                    *)
(***************************************************************************)
EXTENDS Integers, Sequences, FiniteSets, TLC

\* ------------------------------------------------------------------------
\* Bounds of the model
\* ------------------------------------------------------------------------

\* longest batch handed to process_batch
MaxFiles == 2

\* environment failures (I/O errors, git errors, directory removals) injected in one run
MaxFaults == 2

\* last second the clock can show
MaxTime == 1
\* the longest tail appended to a filename
MaxTail == 2
\* the longest string of free characters given to sanitize_path_component
MaxStr == 3

\* ------------------------------------------------------------------------
\* Strings, templates and str.format
\* ------------------------------------------------------------------------

\* the symbols matched by \w
WordSyms == {"GameRes", "Character", "Hero", "fbx", "bad", "name", "a"}

\* placeholders of a format string
Placeholders == {"{module}", "{category}", "{feature}", "{file_count}", "{file_list}"}

\* the field a placeholder names
FieldOf(ph) ==
    CASE ph = "{module}" -> "module"
      [] ph = "{category}" -> "category"
      [] ph = "{feature}" -> "feature"
      [] ph = "{file_count}" -> "file_count"
      [] ph = "{file_list}" -> "file_list"

RECURSIVE Format(_, _)
\* str.format(**kwargs): the rendered string, or KeyError when the template
\* names a field that is not among the keyword arguments
Format(template, kwargs) ==
    IF template = <<>> THEN [ok |-> TRUE, val |-> <<>>]
    ELSE LET h == Head(template)
             rest == Format(Tail(template), kwargs)
         IN  IF h \in Placeholders
             THEN IF FieldOf(h) \in DOMAIN kwargs
                  THEN [ok |-> rest.ok, val |-> kwargs[FieldOf(h)] \o rest.val]
                  ELSE [ok |-> FALSE, val |-> <<>>]
             ELSE [ok |-> rest.ok, val |-> <<h>> \o rest.val]

\* the components of a path string: split at "/", empty components dropped
\* (pathlib's normalisation of "a//b" and of a trailing "/")
Components[t \in Seq(STRING)] ==
    LET starts == {i \in 1..Len(t) : t[i] # "/" /\ (i = 1 \/ t[i - 1] = "/")}
        ends == {i \in 1..Len(t) : t[i] # "/" /\ (i = Len(t) \/ t[i + 1] = "/")}
        Nth(S, k) == CHOOSE a \in S : Cardinality({x \in S : x < a}) = k - 1
    IN  [k \in 1..Cardinality(starts) |-> SubSeq(t, Nth(starts, k), Nth(ends, k))]

\* the components of the path string cur \o s
SplitPath(s, cur) == Components[cur \o s]

\* ------------------------------------------------------------------------
\* parsers.py
\* ------------------------------------------------------------------------

\* s[a:b], empty when b < a
Slice(s, a, b) == IF b < a THEN <<>> ELSE SubSeq(s, a, b)

AllIn(s, set) == \A i \in 1..Len(s) : s[i] \in set

\* the ways the sample pattern
\*   ^(?P<module>\w+)_(?P<category>\w+)_(?P<feature>[\w-]+)(_(?P<variant>\w+))?\.(?P<ext>\w+)$
\* matches the filename: m[1], m[2] the positions of the two "_", m[4] the
\* position of the ".", m[3] the position of the "_" before the variant
\* (m[3] = m[4] when the optional group does not take part in the match)
Matches(filename) ==
    { m \in (1..Len(filename)) \X (1..Len(filename)) \X (1..Len(filename))
            \X (1..Len(filename)) :
        /\ 1 < m[1] /\ m[1] + 1 < m[2] /\ m[2] + 1 < m[3] /\ m[3] <= m[4]
        /\ m[4] < Len(filename)
        /\ filename[m[1]] = "_" /\ filename[m[2]] = "_" /\ filename[m[4]] = "."
        /\ m[3] < m[4] => (filename[m[3]] = "_" /\ m[3] + 1 < m[4])
        /\ AllIn(Slice(filename, 1, m[1] - 1), WordSyms \cup {"_"})
        /\ AllIn(Slice(filename, m[1] + 1, m[2] - 1), WordSyms \cup {"_"})
        /\ AllIn(Slice(filename, m[2] + 1, m[3] - 1), WordSyms \cup {"_", "-"})
        /\ AllIn(Slice(filename, m[3] + 1, m[4] - 1), WordSyms \cup {"_"})
        /\ AllIn(Slice(filename, m[4] + 1, Len(filename)), WordSyms \cup {"_"}) }

\* the match a backtracking engine finds first: every group is greedy, so the
\* earlier group is as long as a match allows
FirstMatch(filename) ==
    CHOOSE m \in Matches(filename) :
        \A o \in Matches(filename) :
            \/ m[1] > o[1]
            \/ m[1] = o[1] /\ m[2] > o[2]
            \/ m[1] = o[1] /\ m[2] = o[2] /\ m[3] >= o[3]

\* FilenameParser.parse: the ParsedFilename, or ParseError; a group that took
\* no part in the match (None) is the empty string
Parse(filename) ==
    IF Matches(filename) = {} THEN [ok |-> FALSE]
    ELSE LET m == FirstMatch(filename)
             module == Slice(filename, 1, m[1] - 1)
             category == Slice(filename, m[1] + 1, m[2] - 1)
             feature == Slice(filename, m[2] + 1, m[3] - 1)
         IN  IF module = <<>> \/ category = <<>> \/ feature = <<>>
             THEN [ok |-> FALSE]
             ELSE [ok |-> TRUE,
                   module |-> module,
                   category |-> category,
                   feature |-> feature,
                   variant |-> Slice(filename, m[3] + 1, m[4] - 1),
                   extension |-> Slice(filename, m[4] + 1, Len(filename)),
                   original_name |-> filename]

\* naming.pattern as a sequence of regular-expression elements
StartAnchor == [k |-> "^"]
EndAnchor == [k |-> "$"]
EndOfString == [k |-> "\\Z"]
Lit(c) == [k |-> "lit", c |-> c]
Group(name, class, min) == [k |-> "group", name |-> name, class |-> class, min |-> min]
Optional(sub) == [k |-> "?", sub |-> sub]

\* the number of symbols of s from position pos on that belong to class
RunLength(s, pos, class) ==
    IF pos > Len(s) THEN 0
    ELSE CHOOSE n \in 0..(Len(s) - pos + 1) :
            /\ \A i \in pos..(pos + n - 1) : s[i] \in class
            /\ pos + n <= Len(s) => s[pos + n] \notin class

NoMatch == [ok |-> FALSE, end |-> 0, groups |-> <<>>]

Max(S) == CHOOSE n \in S : \A o \in S : o <= n

RECURSIVE MatchAt(_, _, _)
\* the match of a backtracking engine for pattern at position pos of s:
\* quantifiers are greedy, the first alternative that lets the rest of the
\* pattern match wins; `$` matches at the end of the string and before a
\* newline that ends it; nothing requires the match to end where s ends
MatchAt(pattern, s, pos) ==
    IF pattern = <<>> THEN [ok |-> TRUE, end |-> pos, groups |-> <<>>]
    ELSE LET e == Head(pattern)
             rest == Tail(pattern)
         IN  CASE e.k = "^" ->
                    IF pos = 1 THEN MatchAt(rest, s, pos) ELSE NoMatch
               [] e.k = "$" ->
                    IF pos = Len(s) + 1 \/ (pos = Len(s) /\ s[pos] = "\n")
                    THEN MatchAt(rest, s, pos) ELSE NoMatch
               [] e.k = "\\Z" ->
                    IF pos = Len(s) + 1 THEN MatchAt(rest, s, pos) ELSE NoMatch
               [] e.k = "lit" ->
                    IF pos <= Len(s) /\ s[pos] = e.c
                    THEN MatchAt(rest, s, pos + 1) ELSE NoMatch
               [] e.k = "group" ->
                    LET good == { n \in e.min..RunLength(s, pos, e.class) :
                                     MatchAt(rest, s, pos + n).ok }
                    IN  IF good = {} THEN NoMatch
                        ELSE LET n == Max(good)
                                 r == MatchAt(rest, s, pos + n)
                             IN  [ok |-> TRUE, end |-> r.end,
                                  groups |-> <<<<e.name, Slice(s, pos, pos + n - 1)>>>>
                                             \o r.groups]
               [] e.k = "?" ->
                    LET with == MatchAt(e.sub \o rest, s, pos)
                    IN  IF with.ok THEN with ELSE MatchAt(rest, s, pos)

\* match.groupdict().get(name, default); a group that took no part in the
\* match (None) is the empty string
RECURSIVE GroupGet(_, _, _)
GroupGet(groups, name, default) ==
    IF groups = <<>> THEN default
    ELSE IF Head(groups)[1] = name THEN Head(groups)[2]
         ELSE GroupGet(Tail(groups), name, default)

\* re.fullmatch: the pattern matches the filename from first to last character
FullMatch(pattern, filename) == MatchAt(pattern \o <<EndOfString>>, filename, 1).ok

\* FilenameParser(pattern).parse(filename)
ParseWith(pattern, filename) ==
    LET match == MatchAt(pattern, filename, 1)
        module == GroupGet(match.groups, "module", <<>>)
        category == GroupGet(match.groups, "category", <<>>)
        feature == GroupGet(match.groups, "feature", <<>>)
    IN  IF ~match.ok THEN [ok |-> FALSE]
        ELSE IF module = <<>> \/ category = <<>> \/ feature = <<>>
             THEN [ok |-> FALSE]
             ELSE [ok |-> TRUE,
                   module |-> module,
                   category |-> category,
                   feature |-> feature,
                   variant |-> GroupGet(match.groups, "variant", <<>>),
                   extension |-> GroupGet(match.groups, "ext",
                                          GroupGet(match.groups, "extension", <<>>)),
                   original_name |-> filename]

\* the sample pattern without its anchors
\*   (?P<module>\w+)_(?P<category>\w+)_(?P<feature>[\w-]+)(_(?P<variant>\w+))?\.(?P<ext>\w+)
SampleBody ==
    << Group("module", WordSyms \cup {"_"}, 1), Lit("_"),
       Group("category", WordSyms \cup {"_"}, 1), Lit("_"),
       Group("feature", WordSyms \cup {"_", "-"}, 1),
       Optional(<< Lit("_"), Group("variant", WordSyms \cup {"_"}, 1) >>),
       Lit("."), Group("ext", WordSyms \cup {"_"}, 1) >>

\* the sample pattern, ^...$
SamplePattern == <<StartAnchor>> \o SampleBody \o <<EndAnchor>>

\* a pattern whose module group may be empty
\*   ^(?P<module>\w*)_(?P<category>\w+)_(?P<feature>[\w-]+)\.(?P<ext>\w+)$
StarPattern ==
    << StartAnchor, Group("module", WordSyms \cup {"_"}, 0), Lit("_"),
       Group("category", WordSyms \cup {"_"}, 1), Lit("_"),
       Group("feature", WordSyms \cup {"_", "-"}, 1),
       Lit("."), Group("ext", WordSyms \cup {"_"}, 1), EndAnchor >>

\* the configured naming.pattern
Patterns == {SamplePattern, SampleBody, StarPattern}

\* ------------------------------------------------------------------------
\* core/path_generator.py and core/config.py
\* ------------------------------------------------------------------------

\* Config.repo: base / ".repo"
RepoRoot == << <<".repo">> >>

\* Config.inbox and a second directory files can be named from with --file
InboxDir == << <<"inbox">> >>
DropDir == << <<"drop">> >>

\* Config.failed: base / "failed"
FailedDir == << <<"failed">> >>

\* Config.asset_root default
AssetRoot == <<"Assets", "/", "GameRes", "/">>

\* a generate that joins the rendered template to the repository root directly
Generate_WithoutAssetRoot(path_template, parsed, repo_base) ==
    LET rel_dir == Format(path_template,
                          [module |-> parsed.module,
                           category |-> parsed.category,
                           feature |-> parsed.feature])
    IN  IF rel_dir.ok
        THEN [ok |-> TRUE,
              path |-> [dir |-> repo_base \o SplitPath(rel_dir.val, <<>>),
                        name |-> parsed.original_name]]
        ELSE [ok |-> FALSE]

\* PathGenerator.generate: repo_base / asset_root / rel_dir / original_name,
\* or KeyError from the template
Generate(path_template, parsed, repo_base) ==
    LET rel_dir == Format(path_template,
                          [module |-> parsed.module,
                           category |-> parsed.category,
                           feature |-> parsed.feature])
    IN  IF rel_dir.ok
        THEN [ok |-> TRUE,
              path |-> [dir |-> repo_base \o SplitPath(AssetRoot, <<>>)
                                          \o SplitPath(rel_dir.val, <<>>),
                        name |-> parsed.original_name]]
        ELSE [ok |-> FALSE]

\* the exception of generate for a template that names another field: the
\* KeyError of str.format, which generate does not catch
GenerateError == "KeyError"

\* ------------------------------------------------------------------------
\* Inputs of a run
\* ------------------------------------------------------------------------

\* filenames dropped by contributors
GoodName == <<"GameRes", "_", "Character", "_", "Hero", ".", "fbx">>
BadName == <<"bad", " ", "name", ".", "fbx">>

\* a second well-formed name, with a variant: same directory, another target
VariantName == <<"GameRes", "_", "Character", "_", "Hero", "_", "fbx", ".", "fbx">>

FileNames == {GoodName, VariantName, BadName}

\* paths that can be handed to process_batch: the inbox files, and a file of
\* another directory named with --file
FilePaths ==
    { [dir |-> InboxDir, name |-> GoodName], [dir |-> InboxDir, name |-> VariantName],
      [dir |-> InboxDir, name |-> BadName], [dir |-> DropDir, name |-> BadName] }

\* path_template of the configuration
DefaultPathTemplate == <<"{module}", "/", "{category}", "/", "{feature}", "/">>
BadPathTemplate == <<"{module}", "/", "{file_list}", "/">>

\* Config.git_commit_template default, and constants.DEFAULT_COMMIT_TEMPLATE
ConfigCommitTemplate == <<"Update ", "{category}", ": ", "{feature}">>
DEFAULT_COMMIT_TEMPLATE ==
    <<"feat(assets): Add ", "{category}", "Feature: ", "{feature}",
      "Files: ", "{file_count}", "{file_list}">>

Configs ==
    { [path_template |-> DefaultPathTemplate, commit_template |-> ConfigCommitTemplate],
      [path_template |-> DefaultPathTemplate, commit_template |-> DEFAULT_COMMIT_TEMPLATE],
      [path_template |-> BadPathTemplate, commit_template |-> ConfigCommitTemplate] }

\* sequences of distinct paths, at most n long
RECURSIVE Batches(_)
Batches(n) ==
    IF n = 0 THEN {<<>>}
    ELSE Batches(n - 1) \cup
         { Append(b, f) : b \in { x \in Batches(n - 1) : Len(x) = n - 1 },
                          f \in FilePaths }

Distinct(b) == \A i, j \in 1..Len(b) : i # j => b[i] # b[j]

\* ------------------------------------------------------------------------
\* Filesystem and repository state
\* ------------------------------------------------------------------------

\* the version-control metadata directory
GitDir == RepoRoot \o << <<".git">> >>

Empty == [p \in {} |-> 0]

\* shutil.move of an existing file: the destination is replaced
FsMove(f, src, dst) ==
    [p \in (DOMAIN f \ {src}) \cup {dst} |-> IF p = dst THEN f[src] ELSE f[p]]

\* Path.stem and Path.suffix: split at the last "." that is not the first symbol
LastDot(name) ==
    IF \E i \in 2..Len(name) : name[i] = "."
    THEN CHOOSE i \in 2..Len(name) :
            name[i] = "." /\ \A j \in (i + 1)..Len(name) : name[j] # "."
    ELSE 0

Stem(name) == IF LastDot(name) = 0 THEN name ELSE Slice(name, 1, LastDot(name) - 1)

Suffix(name) ==
    IF LastDot(name) = 0 THEN <<>> ELSE Slice(name, LastDot(name), Len(name))

\* datetime.now().strftime("%Y%m%d_%H%M%S") of a clock reading in seconds
Strftime(t) == ToString(t)

\* the name _move_to_failed gives the file in the failed directory
FailedPath(f, name, t) ==
    IF [dir |-> FailedDir, name |-> name] \in DOMAIN f
    THEN [dir |-> FailedDir,
          name |-> Stem(name) \o <<"_", Strftime(t)>> \o Suffix(name)]
    ELSE [dir |-> FailedDir, name |-> name]

\* Path.relative_to(repo_path) does not raise ValueError
IsUnder(dir, root) ==
    /\ Len(dir) >= Len(root)
    /\ \A i \in 1..Len(root) : dir[i] = root[i]

\* ------------------------------------------------------------------------
\* State
\* ------------------------------------------------------------------------

VARIABLES
    files,      \* the list handed to process_batch
    cfg,        \* the loaded configuration
    fs,         \* files on disk: path -> content (the index of the file in the batch, 0 = older file)
    dirs,       \* directories on disk
    staged,     \* git index: path -> content staged and not yet committed
    head,       \* local branch: path -> committed content
    remote,     \* remote branch: path -> pushed content
    pc,         \* position of the command
    idx,        \* enumerate index of process_batch
    parsed,     \* ParsedFilename of the current file
    target,     \* target_path of the current file
    src,        \* argument of the pending _move_to_failed call
    cause,      \* the except clause process took: "none", "ProcessError", "GitError", "Exception"
    step,       \* the statement of process that raised
    moved,      \* shutil.move to the target path has succeeded for the current file
    recovery,   \* what _handle_git_failure did
    sink,       \* what _move_to_failed did
    ret,        \* return value of the current process call: "none", "True", "False"
    gitLog,     \* git commands run for the current file, with their results
    results,    \* return values of process, in call order
    success,    \* process_batch: success
    failed,     \* process_batch: failed
    faults,     \* environment failures injected so far
    now,        \* last reading of the clock, in seconds
    exitCode,   \* exit status of the command, -1 while it runs
    fs0,        \* fs when the current process call started
    dirs0,      \* dirs when the current process call started
    remote0,    \* remote when the command started
    arg,        \* argument of the function or command under test
    out         \* its result

vars == <<files, cfg, fs, dirs, staged, head, remote, pc, idx, parsed, target, src,
          cause, step, moved, recovery, sink, ret, gitLog, results, success, failed,
          faults, now, exitCode, fs0, dirs0, remote0, arg, out>>

\* the bytes of a file: a file of an earlier run (content 0) holds the bytes of
\* the first file of the batch, every batch file holds bytes of its own
Bytes(c) == IF c = 0 THEN 1 ELSE c

NoPath == [dir |-> <<>>, name |-> <<>>]

\* the target path of GoodName under the default template
GoodTarget == Generate(DefaultPathTemplate, Parse(GoodName), RepoRoot).path

\* GitRepo.exists
RepoExists == GitDir \in dirs

\* the current file
File == files[idx]

Init ==
    /\ files \in { b \in Batches(MaxFiles) : Distinct(b) }
    /\ cfg \in Configs
    /\ \E cloned \in BOOLEAN, committed \in BOOLEAN, old \in BOOLEAN :
        \* committed: the working copy already holds a file at GoodTarget, with the
        \*            bytes of the first file of the batch, committed and pushed
        \* old: the failed directory holds a BadName file of an earlier run
        /\ committed => cloned
        /\ dirs = {d \in {InboxDir, DropDir} : \E i \in 1..Len(files) : files[i].dir = d}
                  \cup {InboxDir}
                  \cup (IF cloned THEN {RepoRoot, GitDir} ELSE {})
                  \cup (IF committed THEN {GoodTarget.dir} ELSE {})
                  \cup (IF old THEN {FailedDir} ELSE {})
        /\ fs = [p \in {files[i] : i \in 1..Len(files)}
                       \cup (IF committed THEN {GoodTarget} ELSE {})
                       \cup (IF old THEN {[dir |-> FailedDir, name |-> BadName]} ELSE {})
                   |-> IF \E i \in 1..Len(files) : files[i] = p
                       THEN CHOOSE i \in 1..Len(files) : files[i] = p
                       ELSE 0]
        /\ head = IF committed THEN [p \in {GoodTarget} |-> Bytes(0)] ELSE Empty
        /\ remote = head
    /\ staged = Empty
    /\ pc = "cli"
    /\ idx = 0
    /\ parsed = [ok |-> FALSE]
    /\ target = NoPath
    /\ src = NoPath
    /\ cause = "none"
    /\ step = "none"
    /\ moved = FALSE
    /\ recovery = "none"
    /\ sink = "none"
    /\ ret = "none"
    /\ gitLog = <<>>
    /\ results = <<>>
    /\ success = 0
    /\ failed = 0
    /\ faults = 0
    /\ now = 0
    /\ exitCode = -1
    /\ fs0 = fs
    /\ dirs0 = dirs
    /\ remote0 = remote
    /\ arg = <<>>
    /\ out = <<>>

\* ------------------------------------------------------------------------
\* core/git_repo.py
\* ------------------------------------------------------------------------

NothingToCommit == "nothing to commit"

\* results of running a git command: exit status and captured output;
\* rc = -1 stands for subprocess.run raising OSError (git cannot be started)
OkRun == [rc |-> 0, stdout |-> <<>>, stderr |-> <<>>]
ErrRun == [rc |-> 1, stdout |-> <<>>, stderr |-> <<"fatal: ", "error">>]
SpawnErr == [rc |-> -1, stdout |-> <<>>, stderr |-> <<>>]

\* `git commit` with nothing staged: exit status 1, the report goes to stdout
NothingRun ==
    [rc |-> 1,
     stdout |-> <<"On branch main\n", NothingToCommit, ", working tree clean">>,
     stderr |-> <<>>]

\* the same report from a git that writes it to stderr
NothingRunStderr ==
    [rc |-> 1,
     stdout |-> <<>>,
     stderr |-> <<"On branch main\n", NothingToCommit, ", working tree clean">>]

\* `needle in text`
Contains(text, needle) == \E i \in 1..Len(text) : text[i] = needle

\* GitRepo._run_git: subprocess.run(check=True)
run_git(run) ==
    IF run.rc = 0 THEN "ok"
    ELSE IF run.rc < 0 THEN "OSError" ELSE "CalledProcessError"

\* GitRepo.pull
pull(run) ==
    IF run_git(run) = "CalledProcessError" THEN "GitError" ELSE run_git(run)

\* GitRepo.add
add(file_path, run) ==
    IF ~IsUnder(file_path.dir, RepoRoot) THEN "GitError"
    ELSE IF run_git(run) = "CalledProcessError" THEN "GitError" ELSE run_git(run)

\* GitRepo.commit
commit(run) ==
    IF run_git(run) = "CalledProcessError"
    THEN IF Contains(run.stderr, NothingToCommit) THEN "ok" ELSE "GitError"
    ELSE run_git(run)

\* GitRepo.push
push(run) ==
    IF run_git(run) = "CalledProcessError" THEN "GitError" ELSE run_git(run)

\* what `git add path` leaves in the index
GitAdd(index, tree, path, bytes) ==
    IF path \in DOMAIN tree /\ tree[path] = bytes
    THEN [p \in DOMAIN index \ {path} |-> index[p]]
    ELSE [p \in DOMAIN index \cup {path} |-> IF p = path THEN bytes ELSE index[p]]

\* what `git commit` leaves in the local branch
GitCommit(index, tree) ==
    [p \in DOMAIN tree \cup DOMAIN index |->
        IF p \in DOMAIN index THEN index[p] ELSE tree[p]]

\* ------------------------------------------------------------------------
\* cli.py: process, and FileProcessor.process_batch
\* ------------------------------------------------------------------------

\* a command that forgets to raise typer.Exit(1) after a failed batch
ExitStatus_AlwaysZero(failedCount) == 0

\* exit status of the process command after process_batch returned
ExitStatus(failedCount) == IF failedCount > 0 THEN 1 ELSE 0

\* a loop that breaks at the first file that failed
LoopContinues_StopOnFailure(r) == r = "True"

\* process_batch: the loop goes on after a file, whatever process returned
LoopContinues(r) == TRUE

\* process_batch: the counters after process returned r
Tally(r, s, f) == IF r = "True" THEN <<s + 1, f>> ELSE <<s, f + 1>>

perFile == <<parsed, target, src, cause, step, moved, recovery, sink, ret, gitLog, fs0, dirs0>>
disk == <<fs, dirs>>
git == <<staged, head, remote>>
batch == <<results, success, failed>>
inputs == <<files, cfg, remote0, arg, out>>

\* Config.load, FileProcessor(config) or the listing of the inbox raises: the
\* except clauses of the command exit with status 1
CliError ==
    /\ pc = "cli"
    /\ pc' = "cli_error"
    /\ exitCode' = 1
    /\ UNCHANGED <<inputs, disk, git, idx, perFile, batch, faults, now>>

\* the file list is empty: the command returns
CliEmpty ==
    /\ pc = "cli"
    /\ files = <<>>
    /\ pc' = "exit"
    /\ exitCode' = 0
    /\ UNCHANGED <<inputs, disk, git, idx, perFile, batch, faults, now>>

\* process_batch is called
CliBatch ==
    /\ pc = "cli"
    /\ files # <<>>
    /\ pc' = "batch"
    /\ UNCHANGED <<inputs, disk, git, idx, perFile, batch, faults, now, exitCode>>

\* process_batch: the for loop has another file to process
NextIteration ==
    /\ idx < Len(files)
    /\ IF idx = 0 THEN TRUE ELSE LoopContinues(results[idx])

\* process_batch: next iteration calls process
BatchNext ==
    /\ pc = "batch"
    /\ NextIteration
    /\ idx' = idx + 1
    /\ pc' = "exists"
    /\ parsed' = [ok |-> FALSE]
    /\ target' = NoPath
    /\ src' = NoPath
    /\ cause' = "none"
    /\ step' = "none"
    /\ moved' = FALSE
    /\ recovery' = "none"
    /\ sink' = "none"
    /\ ret' = "none"
    /\ gitLog' = <<>>
    /\ fs0' = fs
    /\ dirs0' = dirs
    /\ UNCHANGED <<inputs, disk, git, batch, faults, now, exitCode>>

\* process_batch returns and the command reports
BatchReturn ==
    /\ pc = "batch"
    /\ ~NextIteration
    /\ pc' = "exit"
    /\ exitCode' = ExitStatus(failed)
    /\ UNCHANGED <<inputs, disk, git, idx, perFile, batch, faults, now>>

\* process returned: process_batch counts the result
Return ==
    /\ pc = "return"
    /\ results' = Append(results, ret)
    /\ success' = Tally(ret, success, failed)[1]
    /\ failed' = Tally(ret, success, failed)[2]
    /\ pc' = "batch"
    /\ UNCHANGED <<inputs, disk, git, idx, perFile, faults, now, exitCode>>

\* ------------------------------------------------------------------------
\* core/processor.py: FileProcessor.process
\* ------------------------------------------------------------------------

\* the except clause of process that catches an exception raised in its body
Handler(exc) == IF exc = "ProcessError" THEN "ProcessError" ELSE "Exception"

\* raise exc at statement st of process, outside the inner try
Raise(exc, st) ==
    /\ cause' = Handler(exc)
    /\ step' = st
    /\ src' = File
    /\ pc' = "to_failed"

\* 1. repository check
CheckRepo ==
    /\ pc = "exists"
    /\ IF RepoExists
       THEN pc' = "parse" /\ UNCHANGED <<cause, step, src>>
       ELSE Raise("ProcessError", "exists")
    /\ UNCHANGED <<inputs, disk, git, idx, parsed, target, moved, recovery, sink, ret,
                   gitLog, fs0, dirs0, batch, faults, now, exitCode>>

\* self.parser.parse(name) for the names of the run, computed once
ParsedNames == [n \in {f.name : f \in FilePaths} |-> Parse(n)]

\* 2. parse the filename; ParseError is re-raised as ProcessError
ParseName ==
    /\ pc = "parse"
    /\ parsed' = ParsedNames[File.name]
    /\ IF parsed'.ok
       THEN pc' = "generate" /\ UNCHANGED <<cause, step, src>>
       ELSE Raise("ProcessError", "parse")
    /\ UNCHANGED <<inputs, disk, git, idx, target, moved, recovery, sink, ret,
                   gitLog, fs0, dirs0, batch, faults, now, exitCode>>

\* 3. generate the target path; KeyError is caught as an unknown error
GeneratePath ==
    /\ pc = "generate"
    /\ LET g == Generate(cfg.path_template, parsed, RepoRoot)
       IN  IF g.ok
           THEN target' = g.path /\ pc' = "mkdir" /\ UNCHANGED <<cause, step, src>>
           ELSE Raise(GenerateError, "generate") /\ UNCHANGED target
    /\ UNCHANGED <<inputs, disk, git, idx, parsed, moved, recovery, sink, ret,
                   gitLog, fs0, dirs0, batch, faults, now, exitCode>>

\* target_path.parent.mkdir(parents=True, exist_ok=True)
MakeTargetDir ==
    /\ pc = "mkdir"
    /\ \/ /\ dirs' = dirs \cup {target.dir}
          /\ pc' = "move"
          /\ UNCHANGED <<cause, step, src, faults>>
       \/ /\ faults < MaxFaults
          /\ faults' = faults + 1
          /\ Raise("OSError", "mkdir")
          /\ UNCHANGED dirs
    /\ UNCHANGED <<inputs, fs, git, idx, parsed, target, moved, recovery, sink, ret,
                   gitLog, fs0, dirs0, batch, now, exitCode>>

\* 4. shutil.move(file_path, target_path)
MoveToRepo ==
    /\ pc = "move"
    /\ \/ /\ File \in DOMAIN fs
          /\ fs' = FsMove(fs, File, target)
          /\ moved' = TRUE
          /\ pc' = "pull"
          /\ UNCHANGED <<cause, step, src, faults>>
       \/ /\ faults < MaxFaults
          /\ faults' = faults + 1
          /\ Raise("OSError", "move")
          /\ UNCHANGED <<fs, moved>>
    /\ UNCHANGED <<inputs, dirs, git, idx, parsed, target, recovery, sink, ret,
                   gitLog, fs0, dirs0, batch, now, exitCode>>

\* the statement that follows a git call that returned
NextStatement(op) ==
    CASE op = "pull" -> "add"
      [] op = "add" -> "render"
      [] op = "commit" -> "push"
      [] op = "push" -> "success"

\* a process that swallows the errors of the repository adapter and goes on
AfterGit_IgnoreFailure(op, res) == NextStatement(op)

\* 5. where process goes after a call of the repository adapter: on, to the
\* inner `except GitError`, or to the outer `except Exception`
AfterGit(op, res) ==
    IF res = "ok" THEN NextStatement(op)
    ELSE IF res = "GitError" THEN "git_failure" ELSE "to_failed"

\* the runs of a git command that the environment makes fail
FaultyRuns == {ErrRun, SpawnErr}

\* bookkeeping shared by the four git calls of process
GitCall(op, run, res) ==
    /\ run \in FaultyRuns => faults < MaxFaults
    /\ faults' = IF run \in FaultyRuns THEN faults + 1 ELSE faults
    /\ gitLog' = Append(gitLog, [op |-> op, run |-> run, res |-> res])
    /\ pc' = AfterGit(op, res)
    /\ IF res = "ok" THEN UNCHANGED <<cause, step, src>>
       ELSE /\ cause' = IF res = "GitError" THEN "GitError" ELSE Handler(res)
            /\ step' = op
            /\ src' = IF res = "GitError" THEN src ELSE File

\* self.repo.pull()
Pull ==
    /\ pc = "pull"
    /\ \E run \in {OkRun} \cup FaultyRuns : GitCall("pull", run, pull(run))
    /\ UNCHANGED <<inputs, disk, git, idx, parsed, target, moved, recovery, sink, ret,
                   fs0, dirs0, batch, now, exitCode>>

\* self.repo.add(target_path)
Add ==
    /\ pc = "add"
    /\ \E run \in {OkRun} \cup FaultyRuns :
        /\ GitCall("add", run, add(target, run))
        /\ staged' = IF add(target, run) = "ok"
                     THEN GitAdd(staged, head, target, Bytes(fs[target]))
                     ELSE staged
    /\ UNCHANGED <<inputs, disk, head, remote, idx, parsed, target, moved, recovery, sink,
                   ret, fs0, dirs0, batch, now, exitCode>>

\* commit_msg = self.config.git_commit_template.format(module, category, feature)
RenderMessage ==
    /\ pc = "render"
    /\ IF Format(cfg.commit_template,
                 [module |-> parsed.module, category |-> parsed.category,
                  feature |-> parsed.feature]).ok
       THEN pc' = "commit" /\ UNCHANGED <<cause, step, src>>
       ELSE Raise("KeyError", "render")
    /\ UNCHANGED <<inputs, disk, git, idx, parsed, target, moved, recovery, sink, ret,
                   gitLog, fs0, dirs0, batch, faults, now, exitCode>>

\* the runs `git commit` can make: with an empty index it exits with status 1
\* and reports that there is nothing to commit
CommitRuns(index) ==
    (IF index = Empty THEN {NothingRun, NothingRunStderr} ELSE {OkRun}) \cup FaultyRuns

\* self.repo.commit(commit_msg)
Commit ==
    /\ pc = "commit"
    /\ \E run \in CommitRuns(staged) :
        /\ GitCall("commit", run, commit(run))
        /\ IF run.rc = 0
           THEN head' = GitCommit(staged, head) /\ staged' = Empty
           ELSE UNCHANGED <<head, staged>>
    /\ UNCHANGED <<inputs, disk, remote, idx, parsed, target, moved, recovery, sink,
                   ret, fs0, dirs0, batch, now, exitCode>>

\* self.repo.push()
Push ==
    /\ pc = "push"
    /\ \E run \in {OkRun} \cup FaultyRuns :
        /\ GitCall("push", run, push(run))
        /\ remote' = IF run.rc = 0 THEN head ELSE remote
    /\ UNCHANGED <<inputs, disk, staged, head, idx, parsed, target, moved, recovery, sink,
                   ret, fs0, dirs0, batch, now, exitCode>>

\* 6. success: report the relative target path and return True
Succeed ==
    /\ pc = "success"
    /\ ret' = "True"
    /\ pc' = "return"
    /\ UNCHANGED <<inputs, disk, git, idx, parsed, target, src, cause, step, moved,
                   recovery, sink, gitLog, fs0, dirs0, batch, faults, now, exitCode>>

\* ------------------------------------------------------------------------
\* core/processor.py: _handle_git_failure and _move_to_failed
\* ------------------------------------------------------------------------

\* a recovery that always hands the file to _move_to_failed
RecoveryRoute_AlwaysSink(parentExists) == "sink"

\* a recovery whose except clause lets the exception escape from process
RecoveryExcept_Reraises(e) == "crashed"

\* _handle_git_failure and _move_to_failed: `except Exception` prints a
\* message and the call returns normally; process goes on to `return False`
RecoveryExcept(e) == "return"

\* _handle_git_failure: move back when the original directory exists,
\* else hand the file at the target path to _move_to_failed
RecoveryRoute(parentExists) == IF parentExists THEN "back" ELSE "sink"

\* the directory the file came from disappears while the file is in the working
\* copy; only _handle_git_failure looks at it, so it is removed right before
RemoveInboxDir ==
    /\ pc = "git_failure"
    /\ File.dir \in dirs
    /\ \A p \in DOMAIN fs : p.dir # File.dir
    /\ faults < MaxFaults
    /\ faults' = faults + 1
    /\ dirs' = dirs \ {File.dir}
    /\ UNCHANGED <<inputs, fs, git, pc, idx, perFile, batch, now, exitCode>>

\* except GitError: self._handle_git_failure(target_path, file_path, e); return False
HandleGitFailure ==
    /\ pc = "git_failure"
    /\ IF RecoveryRoute(File.dir \in dirs) = "back"
       THEN \/ /\ target \in DOMAIN fs
               /\ fs' = FsMove(fs, target, File)
               /\ recovery' = "back"
               /\ ret' = "False"
               /\ pc' = "return"
               /\ UNCHANGED <<src, faults>>
            \/ /\ faults < MaxFaults
               /\ faults' = faults + 1
               /\ recovery' = "back_raised"
               /\ pc' = RecoveryExcept("shutil.Error")
               /\ ret' = IF pc' = "return" THEN "False" ELSE ret
               /\ UNCHANGED <<fs, src>>
       ELSE /\ recovery' = "sink"
            /\ src' = target
            /\ pc' = "to_failed"
            /\ UNCHANGED <<fs, ret, faults>>
    /\ UNCHANGED <<inputs, dirs, git, idx, parsed, target, cause, step, moved, sink,
                   gitLog, fs0, dirs0, batch, now, exitCode>>

\* _move_to_failed(src), then return False
MoveToFailed ==
    /\ pc = "to_failed"
    /\ \/ \* mkdir of the failed directory raises
          /\ faults < MaxFaults
          /\ faults' = faults + 1
          /\ sink' = "raised"
          /\ UNCHANGED <<fs, dirs, now>>
       \/ \* the source is gone, or shutil.move raises
          /\ src \notin DOMAIN fs \/ faults < MaxFaults
          /\ faults' = IF src \notin DOMAIN fs THEN faults ELSE faults + 1
          /\ dirs' = dirs \cup {FailedDir}
          /\ \E t \in now..MaxTime :
                now' = IF [dir |-> FailedDir, name |-> src.name] \in DOMAIN fs
                       THEN t ELSE now
          /\ sink' = "raised"
          /\ UNCHANGED fs
       \/ /\ src \in DOMAIN fs
          /\ dirs' = dirs \cup {FailedDir}
          /\ \E t \in now..MaxTime :
                /\ now' = IF [dir |-> FailedDir, name |-> src.name] \in DOMAIN fs
                          THEN t ELSE now
                /\ fs' = FsMove(fs, src, FailedPath(fs, src.name, t))
          /\ sink' = "moved"
          /\ UNCHANGED faults
    /\ pc' = IF sink' = "raised" THEN RecoveryExcept("OSError") ELSE "return"
    /\ ret' = IF pc' = "return" THEN "False" ELSE ret
    /\ UNCHANGED <<inputs, git, idx, parsed, target, src, cause, step, moved, recovery,
                   gitLog, fs0, dirs0, batch, exitCode>>

Next ==
    \/ CliError \/ CliEmpty \/ CliBatch
    \/ BatchNext \/ BatchReturn \/ Return
    \/ CheckRepo \/ ParseName \/ GeneratePath \/ MakeTargetDir \/ MoveToRepo
    \/ Pull \/ Add \/ RenderMessage \/ Commit \/ Push \/ Succeed
    \/ RemoveInboxDir \/ HandleGitFailure \/ MoveToFailed

Spec == Init /\ [][Next]_vars

\* the command is one sequential Python process: a statement that can run does
FairSpec == Spec /\ WF_vars(Next)

\* ------------------------------------------------------------------------
\* Properties
\* ------------------------------------------------------------------------

\* where the current file is now
Locations == {p \in DOMAIN fs : fs[p] = idx}

AtInbox == File \in Locations
AtTarget == target \in Locations
InFailed == \E p \in Locations : p.dir = FailedDir
InRepo == \E p \in Locations : IsUnder(p.dir, RepoRoot)
Pushed == target \in DOMAIN remote /\ remote[target] = Bytes(idx)

\* C1: when process returns, the file is in exactly one of: its original inbox
\* path, its target path with the change committed and pushed, the failed
\* directory.  Stated for the runs in which no I/O call and no git command was
\* made to fail by the environment, where it is already violated.
C1_NoFileLoss ==
    (pc = "return" /\ faults = 0) =>
        /\ Cardinality(Locations) = 1
        /\ \A p \in Locations :
            \/ p = File
            \/ p = target /\ Pushed
            \/ p.dir = FailedDir

\* C2: with no working copy, process fails with ProcessError and leaves the
\* files and directories on disk exactly as they were before the call.
C2_MissingRepoSideEffectFree ==
    (pc = "return" /\ GitDir \notin dirs0) =>
        /\ ret = "False"
        /\ cause = "ProcessError"
        /\ fs = fs0
        /\ dirs = dirs0

\* C3: when process returns False because the parser raised ParseError or the
\* path generator raised, the file is still at its inbox path and no file was
\* added anywhere.
C3_EarlyErrorsKeepInbox ==
    (pc = "return" /\ step \in {"parse", "generate"}) =>
        /\ ret = "False"
        /\ AtInbox
        /\ fs = fs0

\* C4 as stated: after a GitError of pull, add, commit or push the file is
\* back at its inbox path when the inbox directory exists, in the failed
\* directory when it does not, and in both cases no longer at the target path.
C4_AlwaysLeavesTarget ==
    (pc = "return" /\ cause = "GitError") =>
        /\ ret = "False"
        /\ ~AtTarget
        /\ File.dir \in dirs => AtInbox
        /\ File.dir \notin dirs => InFailed

\* C4 amended: the same, provided the recovery move itself did not raise; when
\* it raises, the error is swallowed, process returns False and the file is
\* still at the target path.
C4_CompensatingRecovery ==
    (pc = "return" /\ cause = "GitError") =>
        /\ ret = "False"
        /\ IF recovery = "back_raised" \/ sink = "raised"
           THEN AtTarget /\ Cardinality(Locations) = 1
           ELSE /\ ~AtTarget
                /\ File.dir \in dirs => AtInbox
                /\ File.dir \notin dirs => InFailed

\* C4 witness: push failed, the inbox directory was gone, the file went to the
\* failed directory
C4_Witness ==
    /\ pc = "return"
    /\ cause = "GitError"
    /\ step = "push"
    /\ File.dir \notin dirs
    /\ InFailed
    /\ ~AtTarget

\* C5: an exception that is not one of the typed failures, at any step of
\* process, sends the file to the failed directory: when process returns False
\* the file is in the failed directory and not in the working copy.  Stated for
\* the runs in which the environment made no call fail, where it is already
\* violated.
C5_UnknownErrorToFailed ==
    (pc = "return" /\ cause = "Exception" /\ faults = 0) =>
        /\ ret = "False"
        /\ InFailed
        /\ ~InRepo

\* number of False among the first n results
RECURSIVE CountFalse(_, _)
CountFalse(rs, n) ==
    IF n = 0 THEN 0 ELSE CountFalse(rs, n - 1) + (IF rs[n] = "False" THEN 1 ELSE 0)

\* the command is inside a process call
InProcess ==
    pc \in {"exists", "parse", "generate", "mkdir", "move", "pull", "add", "render",
            "commit", "push", "success", "git_failure", "to_failed", "return"}

C7_ExitIffFailed ==
    pc \in {"exit", "cli_error"} => (exitCode # 0 <=> failed > 0)

\* C7 amended: once process_batch has run (or the file list was empty) the exit
\* status is non-zero iff failed > 0; the command also exits with status 1,
\* with no file failed, when loading the configuration or building the
\* processor raises before the batch.
C7_ExitStatus ==
    /\ pc = "exit" => (exitCode # 0 <=> failed > 0)
    /\ pc = "exit" => exitCode \in {0, 1}
    /\ pc = "cli_error" => exitCode = 1 /\ failed = 0 /\ results = <<>>

\* C7 witness: a batch with a failed file and a handed-off file has exited
\* with status 1
C7_Witness ==
    /\ pc = "exit"
    /\ failed > 0
    /\ success > 0
    /\ exitCode = 1

GitOrder == <<"pull", "add", "commit", "push">>

\* C8: the git commands of a file are run only after the file was moved to its
\* target path, in the order pull, add, commit, push, each only after the
\* previous one succeeded.
C8_GitOrder ==
    /\ Len(gitLog) <= Len(GitOrder)
    /\ \A i \in 1..Len(gitLog) :
        /\ gitLog[i].op = GitOrder[i]
        /\ i < Len(gitLog) => gitLog[i].res = "ok"
    /\ gitLog # <<>> => moved
    /\ (pc \in {"pull", "add", "render", "commit", "push"} /\ gitLog # <<>>)
            => gitLog[Len(gitLog)].res = "ok"

\* C8 witness: all four commands ran and succeeded
C8_Witness ==
    /\ Len(gitLog) = 4
    /\ \A i \in 1..4 : gitLog[i].res = "ok"
    /\ gitLog[4].op = "push"
    /\ AtTarget

\* C9: GitRepo.commit returns normally when the commit command exits non-zero
\* reporting "nothing to commit", and raises GitError for any other non-zero
\* exit.
C9_IdempotentCommit ==
    \A i \in 1..Len(gitLog) :
        (gitLog[i].op = "commit" /\ gitLog[i].run.rc > 0) =>
            IF \/ Contains(gitLog[i].run.stdout, NothingToCommit)
               \/ Contains(gitLog[i].run.stderr, NothingToCommit)
            THEN gitLog[i].res = "ok"
            ELSE gitLog[i].res = "GitError"

\* C10: no step overwrites or removes a file of the failed directory.
C10_SinkNeverOverwrites ==
    [][\A p \in DOMAIN fs :
          p.dir = FailedDir => (p \in DOMAIN fs' /\ fs'[p] = fs[p])]_vars

\* ------------------------------------------------------------------------
\* FilenameParser on its own
\* ------------------------------------------------------------------------

\* no batch is running
NoBatch ==
    /\ files = <<>>
    /\ cfg = [path_template |-> DefaultPathTemplate, commit_template |-> ConfigCommitTemplate]
    /\ fs = Empty
    /\ dirs = {}
    /\ staged = Empty
    /\ head = Empty
    /\ remote = Empty
    /\ idx = 0
    /\ parsed = [ok |-> FALSE]
    /\ target = NoPath
    /\ src = NoPath
    /\ cause = "none"
    /\ step = "none"
    /\ moved = FALSE
    /\ recovery = "none"
    /\ sink = "none"
    /\ ret = "none"
    /\ gitLog = <<>>
    /\ results = <<>>
    /\ success = 0
    /\ failed = 0
    /\ faults = 0
    /\ now = 0
    /\ exitCode = -1
    /\ fs0 = fs
    /\ dirs0 = dirs
    /\ remote0 = remote

machine == <<files, cfg, remote0, disk, git, idx, perFile, batch, faults, now, exitCode>>

\* filenames: one that matches the sample pattern, one with a variant, one with
\* an empty module, one that does not match
Stems ==
    { GoodName,
      VariantName,
      <<"_", "Character", "_", "Hero", ".", "fbx">>,
      BadName }

\* what may follow: a second extension, a newline, a blank
TailSyms == {".", "fbx", "\n", " "}

RECURSIVE Tails(_)
Tails(n) ==
    IF n = 0 THEN {<<>>}
    ELSE Tails(n - 1) \cup { Append(t, c) : t \in { x \in Tails(n - 1) : Len(x) = n - 1 },
                                           c \in TailSyms }

ParserInputs == { stem \o tail : stem \in Stems, tail \in Tails(MaxTail) }

ParserInit ==
    /\ NoBatch
    /\ pc = "parser"
    /\ arg \in [pattern : Patterns, filename : ParserInputs]
    /\ out = <<>>

\* FilenameParser(pattern).parse(filename) is called and returns or raises
ParseCall ==
    /\ pc = "parser"
    /\ out' = ParseWith(arg.pattern, arg.filename)
    /\ pc' = "parser_done"
    /\ UNCHANGED <<machine, arg>>

ParserNext == ParseCall

ParserSpec == ParserInit /\ [][ParserNext]_vars

\* C12: parse accepts a filename only when the pattern matches it from the
\* first to the last character and module, category and feature are non-empty;
\* everything else, a filename of which only a prefix matches included, is a
\* ParseError.
C12_WholeFilename ==
    (pc = "parser_done" /\ out.ok) =>
        /\ FullMatch(arg.pattern, arg.filename)
        /\ out.module # <<>> /\ out.category # <<>> /\ out.feature # <<>>

\* ------------------------------------------------------------------------
\* PathGenerator.sanitize_path_component on its own
\* ------------------------------------------------------------------------

\* unsafe_chars = '<>:"|?*\\/'
UnsafeChars == <<"<", ">", ":", "\"", "|", "?", "*", "\\", "/">>

\* the length limit of a path component
MaxComponentLen == 100

\* str.replace(old, new): every occurrence
Replace(component, old, new) ==
    [i \in 1..Len(component) |-> IF component[i] = old THEN new ELSE component[i]]

RECURSIVE ReplaceEach(_, _)
\* for char in unsafe_chars: component = component.replace(char, '_')
ReplaceEach(component, chars) ==
    IF chars = <<>> THEN component
    ELSE ReplaceEach(Replace(component, Head(chars), "_"), Tail(chars))

\* a sanitize_path_component that does not limit the length
Sanitize_WithoutLimit(component) == ReplaceEach(component, UnsafeChars)

\* PathGenerator.sanitize_path_component
Sanitize(component) ==
    LET replaced == ReplaceEach(component, UnsafeChars)
    IN  IF Len(replaced) > MaxComponentLen
        THEN SubSeq(replaced, 1, MaxComponentLen)
        ELSE replaced

\* the characters of the inputs: one safe character and the unsafe ones
Chars == {"a"} \cup {UnsafeChars[i] : i \in 1..Len(UnsafeChars)}

RECURSIVE Strings(_)
Strings(n) ==
    IF n = 0 THEN {<<>>}
    ELSE Strings(n - 1) \cup { Append(t, c) : t \in { x \in Strings(n - 1) : Len(x) = n - 1 },
                                               c \in Chars }

\* a run of safe characters that brings an input to the length limit
Pad(n) == [i \in 1..n |-> "a"]

SanitizeInputs ==
    { Pad(n) \o t : n \in {0, MaxComponentLen - 2}, t \in Strings(MaxStr) }

SanitizeInit ==
    /\ NoBatch
    /\ pc = "sanitize"
    /\ arg \in SanitizeInputs
    /\ out = <<>>

\* sanitize_path_component(component) is called and returns
SanitizeCall ==
    /\ pc = "sanitize"
    /\ out' = Sanitize(arg)
    /\ pc' = "sanitized"
    /\ UNCHANGED <<machine, arg>>

SanitizeNext == SanitizeCall

SanitizeSpec == SanitizeInit /\ [][SanitizeNext]_vars

IsUnsafe(c) == c \in {"/", "\\", ":", "*", "?", "\"", "<", ">", "|"}

\* ------------------------------------------------------------------------
\* cli.py: delete
\* ------------------------------------------------------------------------

\* the index entry of a staged deletion
Deleted == -1

\* glob patterns of the form <prefix>*<suffix>
HeroGlob == [prefix |-> <<"GameRes", "_">>, suffix |-> <<".", "fbx">>]
OtherGlob == [prefix |-> <<"name", "_">>, suffix |-> <<".", "fbx">>]

\* fnmatch of a name against <prefix>*<suffix>
GlobMatch(pattern, name) ==
    /\ Len(name) >= Len(pattern.prefix) + Len(pattern.suffix)
    /\ SubSeq(name, 1, Len(pattern.prefix)) = pattern.prefix
    /\ SubSeq(name, Len(name) - Len(pattern.suffix) + 1, Len(name)) = pattern.suffix

\* files the working copy can hold: two that match HeroGlob, one that does not
WorkingCopyPaths ==
    { [dir |-> GoodTarget.dir, name |-> n] : n \in {GoodName, VariantName, BadName} }

\* config.repo.rglob(pattern), the files among its results
Rglob(tree, pattern) == { p \in DOMAIN tree : GlobMatch(pattern, p.name) }

\* the orders in which rglob can list a set of paths
Listings(S) ==
    { l \in UNION { [1..n -> S] : n \in {Cardinality(S)} } :
        \A i, j \in 1..Len(l) : i # j => l[i] # l[j] }

\* git knows the path: it is in the local branch or staged
Tracked(index, tree, path) ==
    \/ path \in DOMAIN tree /\ ~(path \in DOMAIN index /\ index[path] = Deleted)
    \/ path \in DOMAIN index /\ index[path] # Deleted

\* `git rm path` of an unknown path: fatal: pathspec did not match any files
PathspecRun == [rc |-> 128, stdout |-> <<>>, stderr |-> <<"fatal: ", "pathspec">>]

\* the runs `git rm path` can make
RmRuns(index, tree, path) ==
    (IF Tracked(index, tree, path) THEN {OkRun} ELSE {PathspecRun}) \cup FaultyRuns

\* what `git rm path` leaves in the index
GitRm(index, tree, path) ==
    IF path \in DOMAIN tree
    THEN [p \in DOMAIN index \cup {path} |-> IF p = path THEN Deleted ELSE index[p]]
    ELSE [p \in DOMAIN index \ {path} |-> index[p]]

\* what `git commit` leaves in the local branch when deletions are staged
GitCommitTree(index, tree) ==
    [p \in { q \in DOMAIN GitCommit(index, tree) : GitCommit(index, tree)[q] # Deleted }
        |-> GitCommit(index, tree)[p]]

\* GitRepo.remove
remove(file_path, run) ==
    IF ~IsUnder(file_path.dir, RepoRoot) THEN "GitError"
    ELSE IF run_git(run) = "CalledProcessError" THEN "GitError" ELSE run_git(run)

DeleteInit ==
    /\ cfg = [path_template |-> DefaultPathTemplate, commit_template |-> ConfigCommitTemplate]
    /\ arg \in [pattern : {HeroGlob, OtherGlob}, confirm : BOOLEAN]
    /\ \E st \in [WorkingCopyPaths -> {"absent", "committed", "untracked", "added"}] :
        /\ fs = [p \in {q \in WorkingCopyPaths : st[q] # "absent"} |-> 1]
        /\ head = [p \in {q \in WorkingCopyPaths : st[q] = "committed"} |-> 1]
        /\ staged = [p \in {q \in WorkingCopyPaths : st[q] = "added"} |-> 1]
    /\ remote = head
    /\ dirs = {InboxDir, RepoRoot, GitDir, GoodTarget.dir}
    /\ files = <<>>
    /\ pc = "delete"
    /\ idx = 0
    /\ parsed = [ok |-> FALSE]
    /\ target = NoPath
    /\ src = NoPath
    /\ cause = "none"
    /\ step = "none"
    /\ moved = FALSE
    /\ recovery = "none"
    /\ sink = "none"
    /\ ret = "none"
    /\ gitLog = <<>>
    /\ results = <<>>
    /\ success = 0
    /\ failed = 0
    /\ faults = 0
    /\ now = 0
    /\ exitCode = -1
    /\ fs0 = fs
    /\ dirs0 = dirs
    /\ remote0 = remote
    /\ out = <<>>

\* what the delete actions leave alone
deleteIdle == <<cfg, remote0, arg, out, dirs, parsed, target, src, cause, step, moved,
                recovery, sink, ret, fs0, dirs0, batch, now>>

\* except Exception: print the error, raise typer.Exit(1)
DeleteFails ==
    /\ pc' = "del_exit"
    /\ exitCode' = 1

\* config = Config.load(config_file); matches = list(config.repo.rglob(pattern))
DeleteSearch ==
    /\ pc = "delete"
    /\ \/ /\ faults < MaxFaults
          /\ faults' = faults + 1
          /\ DeleteFails
          /\ UNCHANGED files
       \/ /\ files' \in Listings(Rglob(fs, arg.pattern))
          /\ pc' = "del_matches"
          /\ UNCHANGED <<faults, exitCode>>
    /\ UNCHANGED <<deleteIdle, fs, git, idx, gitLog>>

\* if not matches: return; if not typer.confirm(...): return
DeleteConfirm ==
    /\ pc = "del_matches"
    /\ IF files = <<>> \/ ~arg.confirm
       THEN pc' = "del_exit" /\ exitCode' = 0 /\ UNCHANGED idx
       ELSE pc' = "del_unlink" /\ idx' = 1 /\ UNCHANGED exitCode
    /\ UNCHANGED <<deleteIdle, files, fs, git, gitLog, faults>>

\* match.unlink()
DeleteUnlink ==
    /\ pc = "del_unlink"
    /\ \/ /\ faults < MaxFaults
          /\ faults' = faults + 1
          /\ DeleteFails
          /\ UNCHANGED fs
       \/ /\ fs' = [p \in DOMAIN fs \ {File} |-> fs[p]]
          /\ pc' = "del_rm"
          /\ UNCHANGED <<faults, exitCode>>
    /\ UNCHANGED <<deleteIdle, files, git, idx, gitLog>>

\* bookkeeping of a git call of delete: any exception ends the command
DeleteGitCall(op, run, res, next) ==
    /\ run \in FaultyRuns => faults < MaxFaults
    /\ faults' = IF run \in FaultyRuns THEN faults + 1 ELSE faults
    /\ gitLog' = Append(gitLog, [op |-> op, run |-> run, res |-> res])
    /\ IF res = "ok" THEN pc' = next /\ exitCode' = (IF next = "del_exit" THEN 0 ELSE exitCode)
       ELSE DeleteFails

\* repo.remove(match), then the next match or the commit
DeleteRemove ==
    /\ pc = "del_rm"
    /\ \E run \in RmRuns(staged, head, File) :
        /\ DeleteGitCall("rm", run, remove(File, run),
                         IF idx < Len(files) THEN "del_unlink" ELSE "del_commit")
        /\ staged' = IF run.rc = 0 THEN GitRm(staged, head, File) ELSE staged
        /\ idx' = IF remove(File, run) = "ok" /\ idx < Len(files) THEN idx + 1 ELSE idx
    /\ UNCHANGED <<deleteIdle, files, fs, head, remote>>

\* repo.commit(f"Delete: {pattern}")
DeleteCommit ==
    /\ pc = "del_commit"
    /\ \E run \in CommitRuns(staged) :
        /\ DeleteGitCall("commit", run, commit(run), "del_push")
        /\ IF run.rc = 0
           THEN head' = GitCommitTree(staged, head) /\ staged' = Empty
           ELSE UNCHANGED <<head, staged>>
    /\ UNCHANGED <<deleteIdle, files, fs, remote, idx>>

\* repo.push(), then the report
DeletePush ==
    /\ pc = "del_push"
    /\ \E run \in {OkRun} \cup FaultyRuns :
        /\ DeleteGitCall("push", run, push(run), "del_exit")
        /\ remote' = IF run.rc = 0 THEN head ELSE remote
    /\ UNCHANGED <<deleteIdle, files, fs, staged, head, idx>>

DeleteNext ==
    \/ DeleteSearch \/ DeleteConfirm \/ DeleteUnlink
    \/ DeleteRemove \/ DeleteCommit \/ DeletePush

DeleteSpec == DeleteInit /\ [][DeleteNext]_vars

\* the git commands of the run, in order
Ops(log) == [i \in 1..Len(log) |-> log[i].op]

\* the git commands other than `git rm`
RECURSIVE Publishing(_)
Publishing(ops) ==
    IF ops = <<>> THEN <<>>
    ELSE IF Head(ops) = "rm" THEN Publishing(Tail(ops))
         ELSE <<Head(ops)>> \o Publishing(Tail(ops))

\* ------------------------------------------------------------------------
\* core/config.py: Config.create and Config.load
\* ------------------------------------------------------------------------

\* f'"{value}"': the value between double quotes, as written
Quoted(value) == <<"\"">> \o value \o <<"\"">>

\* the placeholder values Config.create looks for in the template
TemplateName == <<"sample project name">>
TemplateAssetRoot == <<"Assets/GameRes/">>
TemplateRepository == <<"https://github.com", "/your-org/your-project.git">>

\* templates/config.yaml: the scalars of the keys the program reads, as written
\* in the file; base is the template's workspace.base
ConfigTemplate(base) ==
    [name |-> Quoted(TemplateName),
     asset_root |-> Quoted(TemplateAssetRoot),
     repository |-> Quoted(TemplateRepository),
     base |-> Quoted(base),
     path_template |-> Quoted(<<"{module}/{category}/{feature}/">>),
     pattern |-> Quoted(<<"pattern">>)]

\* str.replace of a whole `key: "value"` entry
ReplaceEntry(entry, old, new) == IF entry = old THEN new ELSE entry

\* Config.create: the content written to output_file
Create(template, project_name, git_url, asset_root) ==
    [template EXCEPT
        !.name = ReplaceEntry(@, Quoted(TemplateName), Quoted(project_name)),
        !.asset_root = ReplaceEntry(@, Quoted(TemplateAssetRoot), Quoted(asset_root)),
        !.repository = ReplaceEntry(@, Quoted(TemplateRepository), Quoted(git_url))]

\* the escape sequences of a YAML double-quoted scalar (those of the inputs)
YamlEscapes == ("\\" :> "\\") @@ ("\"" :> "\"") @@ ("t" :> "\t")

RECURSIVE Unquote(_, _, _)
\* the scanner inside a double-quoted scalar, from position i on: the scalar
\* ends at the first quote that is not escaped and nothing may follow it
Unquote(text, i, acc) ==
    IF i > Len(text) THEN [ok |-> FALSE, val |-> <<>>]
    ELSE IF text[i] = "\""
         THEN (IF i = Len(text) THEN [ok |-> TRUE, val |-> acc]
               ELSE [ok |-> FALSE, val |-> <<>>])
         ELSE IF text[i] = "\\"
              THEN (IF i < Len(text) /\ text[i + 1] \in DOMAIN YamlEscapes
                    THEN Unquote(text, i + 2, Append(acc, YamlEscapes[text[i + 1]]))
                    ELSE [ok |-> FALSE, val |-> <<>>])
              ELSE Unquote(text, i + 1, Append(acc, text[i]))

\* yaml.safe_load of one double-quoted scalar, or YAMLError
DoubleQuoted(text) ==
    IF text = <<>> \/ text[1] # "\"" THEN [ok |-> FALSE, val |-> <<>>]
    ELSE Unquote(text, 2, <<>>)

\* str.startswith
StartsWith(str, prefix) ==
    Len(str) >= Len(prefix) /\ SubSeq(str, 1, Len(prefix)) = prefix

RECURSIVE Resolve(_, _)
\* Path.resolve on the components of an absolute path: "." is dropped, ".."
\* leaves the directory
Resolve(components, acc) ==
    IF components = <<>> THEN acc
    ELSE IF Head(components) = <<".">> THEN Resolve(Tail(components), acc)
         ELSE IF Head(components) = <<"..">>
              THEN Resolve(Tail(components),
                           IF acc = <<>> THEN acc ELSE SubSeq(acc, 1, Len(acc) - 1))
              ELSE Resolve(Tail(components), Append(acc, Head(components)))

\* Path(base).is_absolute()
IsAbsolute(base) == base # <<>> /\ Head(base) = "/"

\* Config.load(config_file): the Config, or ConfigError
Load(content, config_dir) ==
    LET name == DoubleQuoted(content.name)
        repository == DoubleQuoted(content.repository)
        base == DoubleQuoted(content.base)
        path_template == DoubleQuoted(content.path_template)
        pattern == DoubleQuoted(content.pattern)
    IN  IF ~(name.ok /\ repository.ok /\ base.ok /\ path_template.ok /\ pattern.ok
             /\ DoubleQuoted(content.asset_root).ok)
        THEN [ok |-> FALSE, error |-> "YAMLError"]
        ELSE IF name.val = <<>> \/ repository.val = <<>>
                 \/ path_template.val = <<>> \/ pattern.val = <<>>
             THEN [ok |-> FALSE, error |-> "required field"]
             ELSE IF ~(StartsWith(repository.val, <<"https://github.com">>)
                        \/ StartsWith(repository.val, <<"https://gitee.com">>))
                  THEN [ok |-> FALSE, error |-> "unsupported repository"]
                  ELSE [ok |-> TRUE,
                        project_name |-> name.val,
                        git_url |-> repository.val,
                        workspace_base |->
                            IF IsAbsolute(base.val) THEN SplitPath(base.val, <<>>)
                            ELSE Resolve(config_dir \o SplitPath(base.val, <<>>), <<>>)]

\* the arguments of Config.create
ProjectNames ==
    { <<"TestProject">>, <<"My", " ", "Game">>, <<"My", " ", "\"", "Game", "\"">>,
      <<"Art", "\\", "Game">>, <<"Art", "\\", "t", "eam">> }
GitUrls ==
    { <<"https://github.com", "/test/test.git">>, <<"https://gitee.com", "/test/test.git">>,
      <<"git@github.com:", "test/test.git">>, <<"https://gitlab.com", "/test/test.git">> }

\* directories that hold the configuration file, and relative workspace.base
ConfigDirs == { << <<"home">>, <<"art">> >>, << <<"tmp">> >> }
Bases == { <<".", "/">>, <<"work">>, <<"..", "/", "shared">> }

ConfigInit ==
    /\ NoBatch
    /\ pc = "create"
    /\ arg \in [project_name : ProjectNames, git_url : GitUrls,
                 dir : ConfigDirs, base : Bases]
    /\ out = <<>>

\* Config.create(project_name, git_url, output_file=dir / "config.yaml")
ConfigCreate ==
    /\ pc = "create"
    /\ out' = [content |-> Create(ConfigTemplate(arg.base), arg.project_name,
                                  arg.git_url, TemplateAssetRoot)]
    /\ pc' = "created"
    /\ UNCHANGED <<machine, arg>>

\* Config.load(dir / "config.yaml")
ConfigLoad ==
    /\ pc = "created"
    /\ out' = [content |-> out.content, config |-> Load(out.content, arg.dir)]
    /\ pc' = "loaded"
    /\ UNCHANGED <<machine, arg>>

ConfigNext == ConfigCreate \/ ConfigLoad

ConfigSpec == ConfigInit /\ [][ConfigNext]_vars

\* C11: recovery never crashes the batch. process never lets an exception
\* escape, whatever fails (the move back and the move into the failed directory
\* included): it returns True or False; and once process_batch is called it
\* terminates with one result for every supplied file.
C11_RecoveryNeverCrashes ==
    /\ [](pc # "crashed")
    /\ [](pc = "return" => ret \in {"True", "False"})
    /\ (pc = "batch") ~> (pc = "exit" /\ Len(results) = Len(files))

\* a batch that ended although a recovery move raised
C11_Witness ==
    /\ pc = "exit"
    /\ Len(results) = Len(files)
    /\ \E i \in 1..Len(results) : results[i] = "False"
    /\ recovery = "back_raised" \/ sink = "raised"

\* C13: generate is a pure function of (parsed, repo_root). Whatever calls came
\* before and however they ended, the target path of the current file under
\* the template "{module}/{category}/{feature}/" and asset root
\* "Assets/GameRes/" is <repo>/Assets/GameRes/<module>/<category>/<feature>/
\* <original name>; for module GameRes, category Character, feature Hero it is
\* <repo>/Assets/GameRes/GameRes/Character/Hero/<original name>.
C13_GeneratePure ==
    (idx > 0 /\ target # NoPath /\ cfg.path_template = DefaultPathTemplate) =>
        /\ target = [dir |-> << <<".repo">>, <<"Assets">>, <<"GameRes">>,
                                parsed.module, parsed.category, parsed.feature >>,
                     name |-> File.name]
        /\ (parsed.module = <<"GameRes">> /\ parsed.category = <<"Character">>
                /\ parsed.feature = <<"Hero">>) =>
              target.dir = << <<".repo">>, <<"Assets">>, <<"GameRes">>, <<"GameRes">>,
                              <<"Character">>, <<"Hero">> >>

\* the second call of a batch generated a path after the first call failed
C13_Witness ==
    /\ idx = 2
    /\ results = <<"False">>
    /\ pc = "mkdir"
    /\ target.dir = << <<".repo">>, <<"Assets">>, <<"GameRes">>, <<"GameRes">>,
                       <<"Character">>, <<"Hero">> >>
    /\ target.name = GoodName

\* C14: for every input, sanitize_path_component returns at most 100
\* characters, none of them one of / \ : * ? " < > |, each such character of
\* the input being replaced by "_"; an input without them of at most 100
\* characters is returned unchanged.
C14_Sanitize ==
    pc = "sanitized" =>
        /\ Len(out) <= 100
        /\ Len(out) <= Len(arg)
        /\ \A i \in 1..Len(out) : ~IsUnsafe(out[i])
        /\ \A i \in 1..Len(out) : out[i] = IF IsUnsafe(arg[i]) THEN "_" ELSE arg[i]
        /\ ((\A i \in 1..Len(arg) : ~IsUnsafe(arg[i])) /\ Len(arg) <= 100) => out = arg

\* an input of more than 100 characters with unsafe ones was cut and cleaned
C14_Witness ==
    /\ pc = "sanitized"
    /\ Len(arg) > 100
    /\ \E i \in 1..100 : IsUnsafe(arg[i])
    /\ Len(out) = 100

\* C15: when the delete command ends after the operator confirmed, every match
\* is gone from the working copy and from the remote branch, and the run made
\* exactly one commit followed by exactly one push; when nothing matched or the
\* operator declined, no file is removed and no git command is run. (Runs in
\* which no I/O call and no git command is made to fail.)
C15_DeleteOneCommitOnePush ==
    (pc = "del_exit" /\ faults = 0) =>
        IF files # <<>> /\ arg.confirm
        THEN /\ \A i \in 1..Len(files) : files[i] \notin DOMAIN fs
             /\ \A i \in 1..Len(files) : files[i] \notin DOMAIN remote
             /\ Publishing(Ops(gitLog)) = <<"commit", "push">>
             /\ \A i \in 1..Len(gitLog) : gitLog[i].res = "ok" /\ gitLog[i].run.rc = 0
        ELSE /\ fs = fs0
             /\ gitLog = <<>>
             /\ remote = remote0

\* C16: config round trip. The file written by Config.create(project_name,
\* git_url, output_file) loads without error, the loaded project_name and
\* git_url are the ones given to create, and the relative workspace.base is
\* resolved against the directory of the configuration file.
C16_ConfigRoundTrip ==
    pc = "loaded" =>
        /\ out.config.ok
        /\ out.config.project_name = arg.project_name
        /\ out.config.git_url = arg.git_url
        /\ out.config.workspace_base =
              Resolve(arg.dir \o SplitPath(arg.base, <<>>), <<>>)

\* C17: after process returned False because pull, add, commit or push raised
\* the repository error (and the recovery move was made), the working copy is
\* clean with respect to the file: nothing is staged for the target path, and
\* the target path holds a file exactly when the local branch has one there,
\* with the same bytes - no uncommitted file, no uncommitted change or deletion
\* of a file that was there before the move.
C17_CleanAfterGitFailure ==
    (pc = "return" /\ cause = "GitError" /\ (recovery = "back" \/ sink = "moved")) =>
        /\ ret = "False"
        /\ target \notin DOMAIN staged
        /\ target \in DOMAIN fs <=> target \in DOMAIN head
        /\ target \in DOMAIN fs => Bytes(fs[target]) = head[target]

\* C18: failure isolation across a batch. The content of a file whose process
\* call returned False never reaches the remote branch in the same run: what a
\* failed commit left staged and what a failed push left in the local branch is
\* not published by the commit and push of a later file.
C18_FailureIsolation ==
    \A i \in 1..Len(results) :
        results[i] = "False" =>
            \A p \in DOMAIN remote :
                remote[p] = Bytes(i) => (p \in DOMAIN remote0 /\ remote0[p] = remote[p])

\* the state of the current file: Pending, Parsed, Relocated, Committed, Pushed
Stage ==
    IF ~parsed.ok THEN 0
    ELSE IF ~moved THEN 1
    ELSE IF ~(Len(gitLog) >= 3 /\ gitLog[3].res = "ok") THEN 2
    ELSE IF ~(Len(gitLog) >= 4 /\ gitLog[4].res = "ok") THEN 3
    ELSE 4

\* C19: process returns True exactly when the file reached Pushed (parsed,
\* moved to its target path, pull, add, commit and push succeeded); the state of
\* a file only advances along Pending, Parsed, Relocated, Committed, Pushed; and
\* when process returns False the file is back at its inbox path or in the
\* failed directory. (Returns of runs in which no I/O call and no git command
\* is made to fail.)
C19_TrueIffPushed ==
    /\ []((pc = "return" /\ faults = 0) =>
            /\ ret \in {"True", "False"}
            /\ ret = "True" <=> Stage = 4
            /\ ret = "False" => (AtInbox \/ InFailed))
    /\ [][idx' = idx => Stage' >= Stage]_vars

\* C20: idempotent handoff. When the first file of a run has the bytes already
\* committed and pushed at its target path and the commit step is reached,
\* process returns True, the file is at its target path and index, local branch
\* and remote branch are as they were. (Runs in which no I/O call and no git
\* command is made to fail.)
C20_IdempotentHandoff ==
    (/\ pc = "return" /\ faults = 0 /\ idx = 1
     /\ target \in DOMAIN remote0 /\ remote0[target] = Bytes(idx)
     /\ Len(gitLog) >= 3) =>
        /\ ret = "True"
        /\ AtTarget
        /\ staged = Empty
        /\ head = remote0
        /\ remote = remote0

\* ---------------------------------------------------------------------------
\* The reaction of process to a rejected push
\* ---------------------------------------------------------------------------

\* push(): process passes no branch
NoBranch == <<>>

\* GitRepo.push: the arguments handed to git
PushArgs(branch) ==
    IF branch # NoBranch THEN <<"push", "origin", branch>> ELSE <<"push">>

\* the positions of the calls of `op` in the git log of the current file
Calls(log, op) == {i \in 1..Len(log) : log[i].op = op}

\* C21: a rejected push is answered by one pull and one more push for the file,
\* never by more than one retry and never by a forced push, and the file goes
\* through the compensating recovery only when the retry was rejected too.
C21_SinglePullRetry ==
    /\ Cardinality(Calls(gitLog, "push")) <= 2
    /\ \A i \in Calls(gitLog, "push") :
        ~Contains(PushArgs(NoBranch), "--force") /\ ~Contains(PushArgs(NoBranch), "-f")
    /\ (pc = "git_failure" /\ step = "push") =>
        \E i, j, k \in 1..Len(gitLog) :
            /\ i < j /\ j < k
            /\ gitLog[i].op = "push" /\ gitLog[i].res = "GitError"
            /\ gitLog[j].op = "pull"
            /\ gitLog[k].op = "push" /\ gitLog[k].res = "GitError"

\* C22: the commit message is rendered without error for every commit template
\* written with {category}, {feature}, {file_count} and {file_list}, the
\* template of constants.py included: no rendering fails once the file has
\* been moved into the working copy.
C22_RenderNeverFails ==
    ~(moved /\ step = "render" /\ cause # "none")

\* ---------------------------------------------------------------------------
\* From filename to target path: parse, then generate (process, steps 2 and 3)
\* ---------------------------------------------------------------------------

\* the longest run of free symbols at the start of a module field
MaxField == 2

\* symbols a filename can hold besides the word symbols; ".." stands for the
\* two dots that name the parent directory
NameSyms == WordSyms \cup {"_", "-", ".", "..", ":", "*", "\\", " "}

\* a pattern that takes every character but "_" for a field
\*   ^(?P<module>[^_]+)_(?P<category>[^_]+)_(?P<feature>[^_.]+)\.(?P<ext>\w+)$
LoosePattern ==
    << StartAnchor, Group("module", NameSyms \ {"_"}, 1), Lit("_"),
       Group("category", NameSyms \ {"_"}, 1), Lit("_"),
       Group("feature", NameSyms \ {"_", "."}, 1),
       Lit("."), Group("ext", WordSyms \cup {"_"}, 1), EndAnchor >>

\* what a contributor may write for the module
FieldSyms == {"a", "..", ":", "\\"}

RECURSIVE Fields(_)
Fields(n) ==
    IF n = 0 THEN {<<>>}
    ELSE Fields(n - 1) \cup { Append(t, c) : t \in { x \in Fields(n - 1) : Len(x) = n - 1 },
                                             c \in FieldSyms }

\* filenames <module>_Character_Hero.fbx, the module short or of about 100
\* characters
TargetInputs ==
    { Pad(n) \o m \o <<"_", "Character", "_", "Hero", ".", "fbx">> :
        n \in {0, MaxComponentLen - 1}, m \in Fields(MaxField) }

TargetInit ==
    /\ NoBatch
    /\ pc = "target"
    /\ arg \in [pattern : {SamplePattern, LoosePattern}, filename : TargetInputs]
    /\ out = <<>>

\* parsed = self.parser.parse(file_path.name);
\* target_path = self.path_generator.generate(parsed, self.config.repo)
TargetCall ==
    /\ pc = "target"
    /\ LET p == ParseWith(arg.pattern, arg.filename)
       IN  out' = IF p.ok
                  THEN [parsed |-> p, target |-> Generate(cfg.path_template, p, RepoRoot)]
                  ELSE [parsed |-> p]
    /\ pc' = "target_done"
    /\ UNCHANGED <<machine, arg>>

TargetNext == TargetCall

TargetSpec == TargetInit /\ [][TargetNext]_vars

\* repo_root / asset_root
AssetDir == RepoRoot \o SplitPath(AssetRoot, <<>>)

\* C23: for every filename the parser accepts, the directory components that
\* generate builds from module, category and feature hold none of
\* < > : " | ? * \ / and are at most 100 characters long, and the target path
\* lies under repo_root/asset_root.
C23_FieldsSanitized ==
    (pc = "target_done" /\ out.parsed.ok) =>
        LET dir == out.target.path.dir
        IN  /\ out.target.ok
            /\ \A i \in (Len(AssetDir) + 1)..Len(dir) :
                /\ Len(dir[i]) <= MaxComponentLen
                /\ \A j \in 1..Len(dir[i]) : ~IsUnsafe(dir[i][j])
            /\ IsUnder(Resolve(dir, <<>>), AssetDir)

\* ---------------------------------------------------------------------------
\* GitRepo.add and GitRepo.remove on their own
\* ---------------------------------------------------------------------------

\* the deepest directory handed to add and remove
MaxDepth == 3

\* file_path.relative_to(self.repo_path): the path below the repository, or
\* ValueError; the comparison is made component by component, ".." is a
\* component like any other
RelativeTo(file_path, repo_path) ==
    IF IsUnder(file_path.dir, repo_path)
    THEN [ok |-> TRUE,
          rel |-> [dir |-> SubSeq(file_path.dir, Len(repo_path) + 1, Len(file_path.dir)),
                   name |-> file_path.name]]
    ELSE [ok |-> FALSE]

\* the directory a path names once its "." and ".." are followed
RealDir(file_path) == Resolve(file_path.dir, <<>>)

\* git add and git rm of a path that leaves the working tree: exit status 128,
\* "fatal: ... is outside repository"
OutsideRun == [rc |-> 128, stdout |-> <<>>, stderr |-> <<"fatal: ", "outside repository">>]

\* the runs git can make for a path
PathRuns(file_path) ==
    (IF IsUnder(RealDir(file_path), RepoRoot) THEN {OkRun} ELSE {OutsideRun}) \cup FaultyRuns

DirSyms == { <<".repo">>, <<"..">>, <<"inbox">>, <<"Assets">> }

RECURSIVE Dirs(_)
Dirs(n) ==
    IF n = 0 THEN {<<>>}
    ELSE Dirs(n - 1) \cup { Append(t, c) : t \in { x \in Dirs(n - 1) : Len(x) = n - 1 },
                                           c \in DirSyms }

RepoInit ==
    /\ NoBatch
    /\ pc = "repo"
    /\ arg \in { a \in [op : {"add", "remove"},
                        file_path : [dir : Dirs(MaxDepth), name : {GoodName}],
                        run : {OkRun, OutsideRun} \cup FaultyRuns] :
                    a.run \in PathRuns(a.file_path) }
    /\ out = <<>>

\* repo.add(file_path) or repo.remove(file_path) returns or raises; `ran` tells
\* whether _run_git was reached
RepoCall ==
    /\ pc = "repo"
    /\ out' = [res |-> IF arg.op = "add" THEN add(arg.file_path, arg.run)
                       ELSE remove(arg.file_path, arg.run),
               ran |-> RelativeTo(arg.file_path, RepoRoot).ok]
    /\ pc' = "repo_done"
    /\ UNCHANGED <<machine, arg>>

RepoNext == RepoCall

RepoSpec == RepoInit /\ [][RepoNext]_vars

\* C24: add and remove raise GitError, without running git, for every path
\* that is not inside the repository root, a path that starts at the root and
\* leaves it through ".." included.  Stated for a git that can be started and
\* fails for no other reason than the path.
C24_OutsideNeverReachesGit ==
    (pc = "repo_done" /\ arg.run \notin FaultyRuns
                      /\ ~IsUnder(RealDir(arg.file_path), RepoRoot)) =>
        /\ out.res = "GitError"
        /\ ~out.ran

\* ---------------------------------------------------------------------------
\* FilenameParser: construction, then parse file after file
\* ---------------------------------------------------------------------------

\* the most filenames handed to one parser
MaxParses == 2

\* a "(" that is never closed: re.compile raises re.error
Unclosed == [k |-> "("]

\*   ^(?P<module>\w+
InvalidPattern == << StartAnchor, Unclosed, Group("module", WordSyms \cup {"_"}, 1) >>

\* a valid pattern without the feature group
\*   ^(?P<module>\w+)_(?P<category>\w+)\.(?P<ext>\w+)$
NoFeaturePattern ==
    << StartAnchor, Group("module", WordSyms \cup {"_"}, 1), Lit("_"),
       Group("category", WordSyms \cup {"_"}, 1),
       Lit("."), Group("ext", WordSyms \cup {"_"}, 1), EndAnchor >>

RECURSIVE GroupIndex(_)
\* self.pattern.groupindex.keys(): the named groups of a compiled pattern
GroupIndex(pattern) ==
    IF pattern = <<>> THEN {}
    ELSE LET e == Head(pattern)
         IN  (CASE e.k = "group" -> {e.name}
                [] e.k = "?" -> GroupIndex(e.sub)
                [] OTHER -> {})
             \cup GroupIndex(Tail(pattern))

\* re.compile(pattern) raises re.error
ReError(pattern) == \E i \in 1..Len(pattern) : pattern[i] = Unclosed

\* the exception FilenameParser.__init__ raises for both of its checks
CompileError == "ParseError"

\* FilenameParser.__init__(pattern): "ok", or the exception raised
Compile(pattern) ==
    IF ReError(pattern) THEN CompileError
    ELSE IF ~({"module", "category", "feature"} \subseteq GroupIndex(pattern))
         THEN CompileError
         ELSE "ok"

\* the exception of FilenameParser.parse(filename), "none" when it returns
ParseRaises(pattern, filename) ==
    IF ParseWith(pattern, filename).ok THEN "none" ELSE "ParseError"

RECURSIVE NameLists(_)
NameLists(n) ==
    IF n = 0 THEN {<<>>}
    ELSE NameLists(n - 1) \cup { Append(t, c) : t \in { x \in NameLists(n - 1) : Len(x) = n - 1 },
                                                c \in FileNames }

CompileInit ==
    /\ NoBatch
    /\ pc = "construct"
    /\ arg \in [pattern : Patterns \cup {LoosePattern, InvalidPattern, NoFeaturePattern},
                filenames : NameLists(MaxParses)]
    /\ out = [init |-> "none", parses |-> <<>>]

\* self.parser = FilenameParser(config.naming_pattern)
Construct ==
    /\ pc = "construct"
    /\ out' = [out EXCEPT !.init = Compile(arg.pattern)]
    /\ pc' = IF Compile(arg.pattern) = "ok" THEN "constructed" ELSE "construct_raised"
    /\ UNCHANGED <<machine, arg>>

\* parser.parse(filename) for the next filename
ParseFile ==
    /\ pc = "constructed"
    /\ Len(out.parses) < Len(arg.filenames)
    /\ out' = [out EXCEPT !.parses =
                 Append(@, ParseRaises(arg.pattern, arg.filenames[Len(@) + 1]))]
    /\ UNCHANGED <<machine, arg, pc>>

CompileNext == Construct \/ ParseFile

CompileSpec == CompileInit /\ [][CompileNext]_vars

\* C25: the construction of the parser fails with ConfigError when the pattern
\* is not a valid pattern or lacks one of the groups module, category and
\* feature; the failure happens at construction, before any filename is
\* parsed, and no parse of a constructed parser raises ConfigError.
C25_CompileConfigError ==
    /\ (pc # "construct" /\ (ReError(arg.pattern)
                             \/ ~({"module", "category", "feature"}
                                    \subseteq GroupIndex(arg.pattern)))) =>
            /\ pc = "construct_raised"
            /\ out.init = "ConfigError"
            /\ out.parses = <<>>
    /\ \A i \in 1..Len(out.parses) : out.parses[i] # "ConfigError"

\* the fields a template names
Fields_Of(template) ==
    {FieldOf(template[i]) : i \in {j \in 1..Len(template) : template[j] \in Placeholders}}

\* C26: generate fails with ConfigError when the path template names a field
\* other than module, category and feature, and the failure is raised before
\* the file is moved: nothing has changed on disk when it is raised.
C26_GenerateConfigError ==
    /\ (pc = "to_failed" /\ step = "generate") =>
            /\ GenerateError = "ConfigError"
            /\ ~moved
            /\ fs = fs0
    /\ (step = "generate" /\ cause # "none") =>
            ~(Fields_Of(cfg.path_template) \subseteq {"module", "category", "feature"})
    /\ pc \in {"mkdir", "move"} =>
            Fields_Of(cfg.path_template) \subseteq {"module", "category", "feature"}

\* ---------------------------------------------------------------------------
\* cli.py: the setup command
\* ---------------------------------------------------------------------------

\* Config.logs: base / "logs"
LogsDir == << <<"logs">> >>

\* the local variable repo_exists of setup before any assignment
Unbound == "unbound"

\* the local repository at the start: absent, an empty directory, a clone, a
\* clone with a handed-off file
RepoStates ==
    { [dirs |-> {}, fs |-> Empty],
      [dirs |-> {RepoRoot}, fs |-> Empty],
      [dirs |-> {RepoRoot, GitDir}, fs |-> Empty],
      [dirs |-> {RepoRoot, GitDir, GoodTarget.dir}, fs |-> [p \in {GoodTarget} |-> 0]] }

SetupInit ==
    /\ NoBatch
    /\ arg \in [confirm : BOOLEAN,
                clone : {OkRun} \cup FaultyRuns,
                config : {"ok", "ConfigError"},
                local : RepoStates,
                inbox : BOOLEAN]
    /\ pc = "setup"
    /\ out = [repo_exists |-> Unbound]

\* the working copy as setup found it
SetupStart ==
    /\ pc = "setup"
    /\ pc' = "load"
    /\ dirs' = arg.local.dirs \cup (IF arg.inbox THEN {InboxDir} ELSE {})
    /\ fs' = arg.local.fs
    /\ dirs0' = dirs'
    /\ fs0' = fs'
    /\ UNCHANGED <<files, cfg, remote0, git, idx, parsed, target, src, cause, step, moved,
                   recovery, sink, ret, gitLog, batch, faults, now, exitCode, arg, out>>

setupIdle == <<files, cfg, remote0, git, idx, parsed, target, src, cause, step, moved,
               recovery, sink, ret, fs0, dirs0, batch, faults, now, arg>>

\* config = Config.load(config_file); ConfigError: raise typer.Exit(1)
SetupLoad ==
    /\ pc = "load"
    /\ IF arg.config = "ok"
       THEN pc' = "ensure_dirs" /\ UNCHANGED exitCode
       ELSE pc' = "setup_exit" /\ exitCode' = 1
    /\ UNCHANGED <<setupIdle, disk, gitLog, out>>

\* config.ensure_dirs(); repo = GitRepo(config.repo)
SetupEnsureDirs ==
    /\ pc = "ensure_dirs"
    /\ dirs' = dirs \cup {InboxDir, FailedDir, LogsDir}
    /\ pc' = "check"
    /\ UNCHANGED <<setupIdle, fs, gitLog, out, exitCode>>

\* shutil.rmtree(config.repo)
Rmtree(ds, root) == {d \in ds : ~IsUnder(d, root)}

\* if repo.exists(): confirm, and rmtree when the operator accepts; else
\* repo_exists = False
SetupCheck ==
    /\ pc = "check"
    /\ IF RepoExists
       THEN IF ~arg.confirm
            THEN UNCHANGED <<disk, out>>
            ELSE /\ dirs' = Rmtree(dirs, RepoRoot)
                 /\ fs' = [p \in {q \in DOMAIN fs : ~IsUnder(q.dir, RepoRoot)} |-> fs[p]]
                 /\ out' = [out EXCEPT !.repo_exists = "False"]
       ELSE /\ out' = [out EXCEPT !.repo_exists = "False"]
            /\ UNCHANGED disk
    /\ pc' = "test"
    /\ UNCHANGED <<setupIdle, gitLog, exitCode>>

\* if not repo_exists or not repo.exists(): reading the unassigned local
\* raises UnboundLocalError, which `except Exception` turns into exit status 1
SetupTest ==
    /\ pc = "test"
    /\ IF out.repo_exists = Unbound
       THEN pc' = "setup_exit" /\ exitCode' = 1
       ELSE /\ pc' = IF out.repo_exists = "False" \/ ~RepoExists THEN "clone" ELSE "setup_done"
            /\ UNCHANGED exitCode
    /\ UNCHANGED <<setupIdle, disk, gitLog, out>>

\* GitRepo.clone
clone(exists, run) ==
    IF exists THEN "GitError"
    ELSE IF run.rc = 0 THEN "ok"
         ELSE IF run.rc < 0 THEN "OSError" ELSE "GitError"

\* repo.clone(config.git_url, config.git_branch); GitError and every other
\* exception end in typer.Exit(1)
SetupClone ==
    /\ pc = "clone"
    /\ gitLog' = IF RepoExists THEN gitLog
                 ELSE Append(gitLog, [op |-> "clone", run |-> arg.clone,
                                      res |-> clone(RepoExists, arg.clone)])
    /\ IF clone(RepoExists, arg.clone) = "ok"
       THEN /\ dirs' = dirs \cup {RepoRoot, GitDir}
            /\ pc' = "setup_done"
            /\ UNCHANGED exitCode
       ELSE /\ pc' = "setup_exit"
            /\ exitCode' = 1
            /\ UNCHANGED dirs
    /\ UNCHANGED <<setupIdle, fs, out>>

\* the closing report; the command returns
SetupDone ==
    /\ pc = "setup_done"
    /\ pc' = "setup_exit"
    /\ exitCode' = 0
    /\ UNCHANGED <<setupIdle, disk, gitLog, out>>

SetupNext ==
    \/ SetupStart
    \/ SetupLoad
    \/ SetupEnsureDirs
    \/ SetupCheck
    \/ SetupTest
    \/ SetupClone
    \/ SetupDone

SetupSpec == SetupInit /\ [][SetupNext]_vars

\* the working copy below the repository root
RepoTree(ds, f) ==
    [dirs |-> {d \in ds : IsUnder(d, RepoRoot)},
     fs |-> [p \in {q \in DOMAIN f : IsUnder(q.dir, RepoRoot)} |-> f[p]]]

\* C27: when setup finds the local repository and the operator declines the
\* new clone, setup makes no clone, leaves the repository as it was and ends
\* with status 0; when the operator accepts, the repository is removed and
\* cloned again.  (Runs whose configuration loads.)
C27_SetupSkipsClone ==
    (pc = "setup_exit" /\ arg.config = "ok" /\ GitDir \in dirs0) =>
        IF ~arg.confirm
        THEN /\ gitLog = <<>>
             /\ RepoTree(dirs, fs) = RepoTree(dirs0, fs0)
             /\ exitCode = 0
        ELSE /\ Len(gitLog) = 1
             /\ gitLog[1].op = "clone"
             /\ gitLog[1].res = "ok" =>
                    /\ exitCode = 0
                    /\ RepoTree(dirs, fs) = [dirs |-> {RepoRoot, GitDir}, fs |-> Empty]

====
